---- MODULE Spec2Model ----
(***************************************************************************)
(* Model of the credential core of the launcher's auth crate:              *)
(*   crates/auth/src/credentials.rs  AccountCredentials::stage and         *)
(*                                   AccountCredentials::validate_token_chain *)
(*   crates/auth/src/storage.rs      CredentialStorage (write_and_verify,  *)
(*                                   retry_with_backoff, read, delete)     *)
(*   crates/auth/src/error.rs        AuthError                             *)
(* The specifications share the module: SpecResolve drives the stage       *)
(* resolver over every bounded credential chain and clock reading,         *)
(* SpecValidate adds the chain validator to it, SpecMonotone follows       *)
(* repeated resolution of one chain, SpecStore drives one caller of the    *)
(* storage service against a nondeterministic secure-storage adapter       *)
(* (SpecStoreLive with calls that return, SpecCancel with calls that may   *)
(* be abandoned), SpecConcurrent interleaves several callers, SpecCodec    *)
(* encodes and decodes the persisted record, and SpecAccounts runs         *)
(* BackendAccountInfo::validate_accounts (crates/backend/src/account.rs).  *)
(***************************************************************************)
EXTENDS Integers, Sequences, FiniteSets, TLC

VARIABLES
    \* ---- resolver (credentials.rs) ----
    chain,      \* the AccountCredentials record the resolver mutates
    now,        \* the clock, what Utc::now() reads
    pre,        \* history: the chain as it was when stage() was last called
    ret,        \* history: what the last stage() call returned (<<>>: no call yet)
    lastNow,    \* history: the clock reading of the last stage() call
    vres,       \* what the last validate_token_chain() call returned (<<>>: no call yet)
    vchain,     \* history: the chain validate_token_chain() was last called on
    vNow,       \* history: the clock reading of the last validate_token_chain() call
    \* ---- storage service (storage.rs) ----
    store,      \* the adapter's committed records, by account id
    pc,         \* where the caller of the service is
    op,         \* which service operation is in progress / has returned
    uuid,       \* the account id of the call
    creds,      \* the credentials passed to write_and_verify
    attempts,   \* retry_with_backoff's local `attempts`
    result,     \* what the call returned (tag "none": not returned)
    trace,      \* history: the adapter calls and sleeps of the call, in order
    clock,      \* milliseconds elapsed since the call began
    \* ---- concurrent callers of the storage service (storage.rs) ----
    calls,      \* each caller's call: its operation, position, arguments and locals
    lastWriter, \* history: per account id, the caller whose write was applied last
    finished,   \* history: the callers whose calls have returned, in order of return
    \* ---- cancellation, repeated resolution, the persisted form ----
    prior,      \* history: the store as it was when write_and_verify was called
    prevRet,    \* history: what the stage() call before the last returned
    wire,       \* the serialized form of the chain (<<>>: nothing encoded yet)
    decoded,    \* what decoding `wire` gave (<<>>: nothing decoded yet)
    \* ---- account list (backend/src/account.rs) ----
    info,       \* the BackendAccountInfo: accounts and selected_account
    va          \* validate_accounts: its position, locals and history

resolveVars == <<chain, now, pre, ret, lastNow>>
storeVars == <<store, pc, op, uuid, creds, attempts, result, trace, clock>>
validateVars == <<vres, vchain, vNow>>
callVars == <<pc, op, uuid, creds, attempts, result, trace, clock>>
concVars == <<calls, lastWriter, finished>>
codecVars == <<wire, decoded>>
accountVars == <<info, va>>
auxVars == <<prior, prevRet, wire, decoded, info, va>>
vars == <<chain, now, pre, ret, lastNow, vres, vchain, vNow,
          store, pc, op, uuid, creds, attempts, result, trace, clock,
          calls, lastWriter, finished, prior, prevRet, wire, decoded, info, va>>

----------------------------------------------------------------------------
(* Bounds of the model *)

\* clock readings and expiries range over 0..MaxTime
MaxTime == 2

----------------------------------------------------------------------------
(* Data model: credentials.rs *)

\* Option<T>: None is the empty sequence, Some(v) the one-element sequence
None == <<>>
Some(v) == <<v>>

Tokens == {"tA", "tB"}
UserHashes == {"h1", "h2"}
Times == 0..MaxTime

\* models::TokenWithExpiry (token, expiry) and models::XstsToken (token, userhash, expiry)
TokenWithExpiry == [token : Tokens, expiry : Times]
XstsToken == [token : Tokens, userhash : UserHashes, expiry : Times]

Opt(S) == {None} \cup {Some(v) : v \in S}

AccountCredentials ==
    [msa_refresh : Opt(Tokens),
     msa_access : Opt(TokenWithExpiry),
     xbl : Opt(TokenWithExpiry),
     xsts : Opt(XstsToken),
     access_token : Opt(TokenWithExpiry)]

\* #[derive(Default)]: every slot None
DefaultCredentials ==
    [msa_refresh |-> None, msa_access |-> None, xbl |-> None,
     xsts |-> None, access_token |-> None]

\* mutant: XboxLive and XboxSecure declared the other way round
AuthStage_SwappedOrder == <<"Initial", "MsaRefresh", "MsaAccess", "XboxSecure", "XboxLive", "AccessToken">>

\* enum AuthStage, in declaration order (derive(PartialOrd, Ord))
AuthStage == <<"Initial", "MsaRefresh", "MsaAccess", "XboxLive", "XboxSecure", "AccessToken">>

StageRank(s) == CHOOSE i \in 1..Len(AuthStage) : AuthStage[i] = s

\* AuthStageWithData::stage: the tag of a returned variant
StageOf(r) == r[1]

----------------------------------------------------------------------------
(* AccountCredentials::stage, credentials.rs:119-156.  Each operator is one *)
(* "try returning" block of the function and falls through to the next;     *)
(* its value is the chain as left by the call and the variant returned.     *)

\* mutant: the refresh token moved out of the slot (Option::take) instead of cloned
StageMsaRefresh_TakesToken(c) ==
    IF c.msa_refresh # None
    THEN [chain |-> [c EXCEPT !.msa_refresh = None], ret |-> <<"MsaRefresh", c.msa_refresh[1]>>]
    ELSE [chain |-> c, ret |-> <<"Initial">>]

StageMsaRefresh(c) ==
    IF c.msa_refresh # None
    THEN [chain |-> c, ret |-> <<"MsaRefresh", c.msa_refresh[1]>>]
    ELSE [chain |-> c, ret |-> <<"Initial">>]

\* mutant: the expiry boundary taken as now <= expiry
StageMsaAccess_InclusiveExpiry(c, t) ==
    IF c.msa_access # None /\ t <= c.msa_access[1].expiry
    THEN [chain |-> c, ret |-> <<"MsaAccess", c.msa_access[1].token>>]
    ELSE StageMsaRefresh([c EXCEPT !.msa_access = None])

StageMsaAccess(c, t) ==
    IF c.msa_access # None /\ t < c.msa_access[1].expiry
    THEN [chain |-> c, ret |-> <<"MsaAccess", c.msa_access[1].token>>]
    ELSE StageMsaRefresh([c EXCEPT !.msa_access = None])

\* mutant: the token moved out of the slot (Option::take) instead of cloned
StageXboxLive_TakesSlot(c, t) ==
    IF c.xbl # None /\ t < c.xbl[1].expiry
    THEN [chain |-> [c EXCEPT !.xbl = None], ret |-> <<"XboxLive", c.xbl[1].token>>]
    ELSE StageMsaAccess([c EXCEPT !.xbl = None], t)

\* mutant: the expiry boundary taken as now <= expiry
StageXboxLive_InclusiveExpiry(c, t) ==
    IF c.xbl # None /\ t <= c.xbl[1].expiry
    THEN [chain |-> c, ret |-> <<"XboxLive", c.xbl[1].token>>]
    ELSE StageMsaAccess([c EXCEPT !.xbl = None], t)

StageXboxLive(c, t) ==
    IF c.xbl # None /\ t < c.xbl[1].expiry
    THEN [chain |-> c, ret |-> <<"XboxLive", c.xbl[1].token>>]
    ELSE StageMsaAccess([c EXCEPT !.xbl = None], t)

\* mutant: the expired xsts slot is not cleared on fall-through
StageXboxSecure_NoClear(c, t) ==
    IF c.xsts # None /\ t < c.xsts[1].expiry
    THEN [chain |-> c, ret |-> <<"XboxSecure", c.xsts[1].token, c.xsts[1].userhash>>]
    ELSE StageXboxLive(c, t)

StageXboxSecure(c, t) ==
    IF c.xsts # None /\ t < c.xsts[1].expiry
    THEN [chain |-> c, ret |-> <<"XboxSecure", c.xsts[1].token, c.xsts[1].userhash>>]
    ELSE StageXboxLive([c EXCEPT !.xsts = None], t)

\* mutant: the expiry comparison flipped
stage_FlippedExpiry(c, t) ==
    IF c.access_token # None /\ t > c.access_token[1].expiry
    THEN [chain |-> c, ret |-> <<"AccessToken", c.access_token[1].token>>]
    ELSE StageXboxSecure([c EXCEPT !.access_token = None], t)

\* mutant: the expired access token is not cleared on fall-through
stage_NoClear(c, t) ==
    IF c.access_token # None /\ t < c.access_token[1].expiry
    THEN [chain |-> c, ret |-> <<"AccessToken", c.access_token[1].token>>]
    ELSE StageXboxSecure(c, t)

stage(c, t) ==
    IF c.access_token # None /\ t < c.access_token[1].expiry
    THEN [chain |-> c, ret |-> <<"AccessToken", c.access_token[1].token>>]
    ELSE StageXboxSecure([c EXCEPT !.access_token = None], t)

----------------------------------------------------------------------------
(* The resolver's state machine: a caller holding one chain calls stage()   *)
(* at the current clock reading, and time passes between calls.             *)

\* one call of AccountCredentials::stage(&mut self) at Utc::now() = now
Stage ==
    /\ chain' = stage(chain, now).chain
    /\ ret' = stage(chain, now).ret
    /\ pre' = chain
    /\ lastNow' = now
    /\ UNCHANGED now

\* a call of stage() by a caller that keeps what the call before returned
StageAgain ==
    /\ Stage
    /\ prevRet' = ret

\* the clock advances
Tick ==
    /\ now < MaxTime
    /\ now' = now + 1
    /\ UNCHANGED <<chain, pre, ret, lastNow>>

----------------------------------------------------------------------------
(* AccountCredentials::validate_token_chain, credentials.rs:70-115.  Each   *)
(* operator is one `if let` block: what it pushes onto invalid_tokens.      *)

\* mutant: the expiry boundary taken as now > expiry
InvalidAccessToken_ExclusiveExpiry(c, t) ==
    IF c.access_token # None
    THEN IF t > c.access_token[1].expiry THEN <<"AccessToken">> ELSE <<>>
    ELSE <<"AccessToken">>

InvalidAccessToken(c, t) ==
    IF c.access_token # None
    THEN IF t >= c.access_token[1].expiry THEN <<"AccessToken">> ELSE <<>>
    ELSE <<"AccessToken">>

\* mutant: an absent xsts slot is not reported
InvalidXsts_AbsentNotReported(c, t) ==
    IF c.xsts # None
    THEN IF t >= c.xsts[1].expiry THEN <<"Xsts">> ELSE <<>>
    ELSE <<>>

InvalidXsts(c, t) ==
    IF c.xsts # None
    THEN IF t >= c.xsts[1].expiry THEN <<"Xsts">> ELSE <<>>
    ELSE <<"Xsts">>

\* mutant: the validator lets a token through at the instant it expires
InvalidXbl_ExclusiveExpiry(c, t) ==
    IF c.xbl # None
    THEN IF t > c.xbl[1].expiry THEN <<"Xbl">> ELSE <<>>
    ELSE <<"Xbl">>

InvalidXbl(c, t) ==
    IF c.xbl # None
    THEN IF t >= c.xbl[1].expiry THEN <<"Xbl">> ELSE <<>>
    ELSE <<"Xbl">>

InvalidMsaAccess(c, t) ==
    IF c.msa_access # None
    THEN IF t >= c.msa_access[1].expiry THEN <<"MsaAccess">> ELSE <<>>
    ELSE <<"MsaAccess">>

InvalidMsaRefresh(c) ==
    IF c.msa_refresh = None THEN <<"MsaRefresh">> ELSE <<>>

\* enum TokenType
TokenType == {"AccessToken", "Xsts", "Xbl", "MsaAccess", "MsaRefresh"}

\* TokenValidationResult: Valid, or Invalid(invalid_tokens) in push order
validate_token_chain(c, t) ==
    LET invalid_tokens == InvalidAccessToken(c, t) \o InvalidXsts(c, t) \o InvalidXbl(c, t)
                              \o InvalidMsaAccess(c, t) \o InvalidMsaRefresh(c)
    IN IF invalid_tokens = <<>> THEN <<"Valid">> ELSE <<"Invalid", invalid_tokens>>

\* one call of AccountCredentials::validate_token_chain(&self) at Utc::now() = now
Validate ==
    /\ vres' = validate_token_chain(chain, now)
    /\ vchain' = chain
    /\ vNow' = now
    /\ UNCHANGED <<chain, now, pre, ret, lastNow>>

----------------------------------------------------------------------------
(* Error taxonomy: error.rs *)

\* enum AuthError
AuthError == {"StorageError", "VerificationFailed", "SerializationError"}

\* mutant: every adapter error reported as a verification failure
AuthErrorFrom_Verification(e) == "VerificationFailed"

\* impl From<SecretStorageError> for AuthError (#[from]): what `?` and
\* map_err(AuthError::from) turn an adapter error into
AuthErrorFrom(e) == "StorageError"

NoResult == [tag |-> "none", err |-> "", val |-> None]
Ok(v) == [tag |-> "Ok", err |-> "", val |-> v]
Err(e) == [tag |-> "Err", err |-> e, val |-> None]

----------------------------------------------------------------------------
(* The secure-storage adapter (secret::PlatformSecretStorage), an external  *)
(* collaborator: a keyed store whose write may fail, may be acknowledged    *)
(* without being committed, or may store a truncated record, and whose read *)
(* may fail or miss.                                                        *)

Ids == {"u1", "u2"}

\* the credential records callers write
CredA == [DefaultCredentials EXCEPT !.msa_refresh = Some("tA")]
CredB == [DefaultCredentials EXCEPT !.msa_refresh = Some("tB"),
                                    !.access_token = Some([token |-> "tA", expiry |-> MaxTime])]
CredSet == {CredA, CredB}

\* what the backend holds for an id: the record and whether it is whole
Blob == [data : CredSet, whole : BOOLEAN]
Intact(c) == Some([data |-> c, whole |-> TRUE])
Truncated(c) == Some([data |-> c, whole |-> FALSE])

EmptyStore == [id \in Ids |-> None]

WriteOutcomes == {"committed", "acked_not_committed", "truncated", "error"}
ReadOutcomes == {"found", "miss", "error"}
DeleteOutcomes == {"deleted", "error"}

\* write_credentials(id, &credentials): the store it leaves
write_credentials(st, id, c, o) ==
    CASE o = "committed" -> [st EXCEPT ![id] = Intact(c)]
      [] o = "truncated" -> [st EXCEPT ![id] = Truncated(c)]
      [] OTHER -> st

\* read_credentials(id): Ok(Some(record)) / Ok(None) / Err
read_credentials(st, id, o) ==
    CASE o = "found" -> Ok(st[id])
      [] o = "miss" -> Ok(None)
      [] OTHER -> Err("SecretStorageError")

\* delete_credentials(id): the store it leaves
delete_credentials(st, id, o) ==
    IF o = "deleted" THEN [st EXCEPT ![id] = None] ELSE st

\* how long an adapter call takes, and by how much a sleep overshoots (ms)
Latencies == {0, 50}

----------------------------------------------------------------------------
(* CredentialStorage, storage.rs *)

\* write_and_verify passes max_retries = 3 to retry_with_backoff (storage.rs:20)
max_retries == 3

\* the factor of Duration::from_millis(100 * ...) (storage.rs:41)
base_delay == 100

\* a << n on unsigned integers
Shl(a, n) == a * 2^n

\* mutant: no doubling, the same delay before every retry
BackoffDelay_Constant(a) == base_delay

\* mutant: the shift taken on the attempt count itself
BackoffDelay_ShiftByAttempts(a) == base_delay * Shl(1, a)

\* storage.rs:41, the delay computed after `attempts` has been incremented to a
BackoffDelay(a) == base_delay * Shl(1, a - 1)

\* mutant: the retries given up one attempt early
RetriesExhausted_OneTooFew(a) == a + 1 >= max_retries

\* mutant: one retry too many
RetriesExhausted_OffByOne(a) == a > max_retries

\* storage.rs:37, `if attempts >= max_retries`
RetriesExhausted(a) == a >= max_retries

\* an event of the call's history
Event(e, id, o, t, d) == [ev |-> e, id |-> id, out |-> o, t |-> t, arg |-> d]

\* the Err(e) arm of retry_with_backoff's match (storage.rs:35-43): count the
\* attempt, return the error when the retries are used up, sleep otherwise
AttemptFailed(e, tr, t) ==
    LET a == attempts + 1 IN
    /\ attempts' = a
    /\ IF RetriesExhausted(a)
       THEN /\ pc' = "done"
            /\ result' = Err(e)
            /\ trace' = tr
       ELSE /\ pc' = "sleep"
            /\ result' = result
            /\ trace' = Append(tr, Event("sleep", uuid, "-", t, BackoffDelay(a)))

\* write_and_verify (storage.rs:14-21) entering retry_with_backoff (storage.rs:30)
CallWriteAndVerify ==
    /\ pc = "idle"
    /\ \E id \in Ids, c \in CredSet :
        /\ uuid' = id
        /\ creds' = c
    /\ op' = "write_and_verify"
    /\ pc' = "write"
    /\ attempts' = 0
    /\ result' = NoResult
    /\ trace' = <<>>
    /\ clock' = 0
    /\ UNCHANGED store

\* mutant: the write's error is dropped (no `?`) and the read-back runs anyway
WriteStep_ReadsAfterError ==
    /\ pc = "write"
    /\ \E o \in WriteOutcomes, lat \in Latencies :
        /\ store' = write_credentials(store, uuid, creds, o)
        /\ clock' = clock + lat
        /\ trace' = Append(trace, Event("write", uuid, IF o = "error" THEN "err" ELSE "ok", clock, 0))
    /\ pc' = "read"
    /\ UNCHANGED <<op, uuid, creds, attempts, result>>

\* write_and_verify_once, storage.rs:54: storage.write_credentials(..).await?
WriteStep ==
    /\ pc = "write"
    /\ \E o \in WriteOutcomes, lat \in Latencies :
        LET ev == Event("write", uuid, IF o = "error" THEN "err" ELSE "ok", clock, 0) IN
        /\ store' = write_credentials(store, uuid, creds, o)
        /\ clock' = clock + lat
        /\ IF o = "error"
           THEN AttemptFailed(AuthErrorFrom("SecretStorageError"), Append(trace, ev), clock + lat)
           ELSE /\ pc' = "read"
                /\ trace' = Append(trace, ev)
                /\ UNCHANGED <<attempts, result>>
    /\ UNCHANGED <<op, uuid, creds>>

\* mutant: a read-back that finds nothing is let through as a success
write_and_verify_once_match_MissIsOk(r) ==
    CASE r.tag = "Err" -> Err(AuthErrorFrom(r.err))
      [] OTHER -> Ok(None)

\* write_and_verify_once, storage.rs:56-59: `match storage.read_credentials(uuid).await?`
write_and_verify_once_match(r) ==
    CASE r.tag = "Err" -> Err(AuthErrorFrom(r.err))
      [] r.val = None -> Err("VerificationFailed")
      [] OTHER -> Ok(None)

\* write_and_verify_once, storage.rs:56-59 (the read-back), then the match of
\* retry_with_backoff on what it returned (storage.rs:33-44)
ReadBackStep ==
    /\ pc = "read"
    /\ \E o \in ReadOutcomes, lat \in Latencies :
        LET r == read_credentials(store, uuid, o)
            out == IF r.tag = "Err" THEN "err" ELSE IF r.val = None THEN "none" ELSE "some"
            ev == Event("read", uuid, out, clock, 0)
            once == write_and_verify_once_match(r)
        IN
        /\ clock' = clock + lat
        /\ IF once.tag = "Ok"
           THEN /\ pc' = "done"
                /\ result' = Ok(None)
                /\ trace' = Append(trace, ev)
                /\ UNCHANGED attempts
           ELSE AttemptFailed(once.err, Append(trace, ev), clock + lat)
    /\ UNCHANGED <<store, op, uuid, creds>>

\* mutant: the loop is not re-entered after the sleep
SleepStep_NeverResumes ==
    /\ pc = "sleep"
    /\ UNCHANGED <<store, pc, op, uuid, creds, attempts, result, trace, clock>>

\* retry_with_backoff, storage.rs:42: sleep(delay).await returns, no earlier
\* than `delay` after it was called, and the loop starts the next attempt
SleepStep ==
    /\ pc = "sleep"
    /\ \E over \in Latencies :
        clock' = clock + trace[Len(trace)].arg + over
    /\ pc' = "write"
    /\ UNCHANGED <<store, op, uuid, creds, attempts, result, trace>>

\* mutant: an adapter error swallowed and returned as Ok(None)
Read_ErrorAsNone ==
    /\ pc = "idle"
    /\ \E id \in Ids, o \in ReadOutcomes, lat \in Latencies :
        LET r == read_credentials(store, id, o)
            out == IF r.tag = "Err" THEN "err" ELSE IF r.val = None THEN "none" ELSE "some"
        IN
        /\ uuid' = id
        /\ result' = IF r.tag = "Err" THEN Ok(None) ELSE r
        /\ trace' = <<Event("read", id, out, 0, 0)>>
        /\ clock' = lat
    /\ op' = "read"
    /\ pc' = "done"
    /\ attempts' = 0
    /\ UNCHANGED <<store, creds>>

\* CredentialStorage::read, storage.rs:62-69
Read ==
    /\ pc = "idle"
    /\ \E id \in Ids, o \in ReadOutcomes, lat \in Latencies :
        LET r == read_credentials(store, id, o)
            out == IF r.tag = "Err" THEN "err" ELSE IF r.val = None THEN "none" ELSE "some"
        IN
        /\ uuid' = id
        /\ result' = IF r.tag = "Err" THEN Err(AuthErrorFrom(r.err)) ELSE r
        /\ trace' = <<Event("read", id, out, 0, 0)>>
        /\ clock' = lat
    /\ op' = "read"
    /\ pc' = "done"
    /\ attempts' = 0
    /\ UNCHANGED <<store, creds>>

\* CredentialStorage::delete, storage.rs:71-74
Delete ==
    /\ pc = "idle"
    /\ \E id \in Ids, o \in DeleteOutcomes, lat \in Latencies :
        /\ uuid' = id
        /\ store' = delete_credentials(store, id, o)
        /\ result' = IF o = "error" THEN Err(AuthErrorFrom("SecretStorageError")) ELSE Ok(None)
        /\ trace' = <<Event("delete", id, IF o = "error" THEN "err" ELSE "ok", 0, 0)>>
        /\ clock' = lat
    /\ op' = "delete"
    /\ pc' = "done"
    /\ attempts' = 0
    /\ UNCHANGED creds

\* the error values the three operations can hand to their caller from the
\* present store: `?` on write_credentials (storage.rs:54), `?` and the match
\* on read_credentials (56-59), map_err on read (68) and on delete (73)
ReturnableErrors ==
    LET reads == {read_credentials(store, id, o) : id \in Ids, o \in ReadOutcomes}
        fromOnce == {write_and_verify_once_match(r) : r \in reads}
        fromRead == {IF r.tag = "Err" THEN Err(AuthErrorFrom(r.err)) ELSE r : r \in reads}
        fromAdapter == {Err(AuthErrorFrom("SecretStorageError"))}
    IN {x.err : x \in {y \in fromOnce \cup fromRead \cup fromAdapter : y.tag = "Err"}}

\* mutant: the dropped call cleans up after itself and deletes the record
Cancel_RollsBack ==
    /\ pc \in {"write", "read", "sleep"}
    /\ pc' = "cancelled"
    /\ store' = delete_credentials(store, uuid, "deleted")
    /\ UNCHANGED <<op, uuid, creds, attempts, result, trace, clock>>

\* the caller drops the write_and_verify future at one of its .await points
\* (storage.rs:33, 42, 54, 56): nothing of the call runs any more, and there
\* is no Drop handler
Cancel ==
    /\ pc \in {"write", "read", "sleep"}
    /\ pc' = "cancelled"
    /\ UNCHANGED <<store, op, uuid, creds, attempts, result, trace, clock>>

\* the caller takes the returned value; the service is at rest again
Return ==
    /\ pc = "done"
    /\ pc' = "idle"
    /\ op' = "none"
    /\ uuid' = "u1"
    /\ creds' = DefaultCredentials
    /\ attempts' = 0
    /\ result' = NoResult
    /\ trace' = <<>>
    /\ clock' = 0
    /\ UNCHANGED store

----------------------------------------------------------------------------
(* Concurrent callers of one CredentialStorage, storage.rs:14-74.  The service
   holds no lock: every .await of an adapter call or of the sleep is a point
   where another caller's step may run.  The backend here applies every write
   and delete and reads back what it holds. *)

Callers == {"p1", "p2", "p3"}

\* a caller that has not called yet
IdleCall ==
    [op |-> "none", pc |-> "idle", uuid |-> "u1", creds |-> DefaultCredentials,
     attempts |-> 0, result |-> NoResult, trace |-> <<>>, seen |-> None]

\* the Err(e) arm of retry_with_backoff's match (storage.rs:35-43) on the
\* locals of one call k
CallAttemptFailed(k, e, tr) ==
    LET a == k.attempts + 1 IN
    IF RetriesExhausted(a)
    THEN [k EXCEPT !.attempts = a, !.pc = "done", !.result = Err(e), !.trace = tr]
    ELSE [k EXCEPT !.attempts = a, !.pc = "sleep",
                   !.trace = Append(tr, Event("sleep", k.uuid, "-", 0, BackoffDelay(a)))]

\* the order in which the calls returned
Completed(k2, p) == IF k2.pc = "done" THEN Append(finished, p) ELSE finished

\* a caller enters write_and_verify (storage.rs:14-30) or delete (storage.rs:71)
CallerCalls(p) ==
    /\ calls[p].pc = "idle"
    /\ \E o \in {"write_and_verify", "delete"}, id \in Ids, c \in CredSet :
        /\ o = "delete" => c = CredA
        /\ calls' = [calls EXCEPT ![p] =
                [IdleCall EXCEPT !.op = o, !.uuid = id, !.creds = c,
                                 !.pc = IF o = "delete" THEN "delete" ELSE "write"]]
    /\ UNCHANGED <<store, lastWriter, finished>>

\* mutant: every account stored under one fixed key
CallerWrites_SharedKey(p) ==
    LET k == calls[p] IN
    /\ k.pc = "write"
    /\ store' = write_credentials(store, "u1", k.creds, "committed")
    /\ lastWriter' = [lastWriter EXCEPT !["u1"] = Some(p)]
    /\ calls' = [calls EXCEPT ![p] =
            [k EXCEPT !.pc = "read",
                      !.trace = Append(k.trace, Event("write", "u1", "ok", 0, 0))]]
    /\ UNCHANGED finished

\* write_and_verify_once, storage.rs:54, of caller p
CallerWrites(p) ==
    LET k == calls[p] IN
    /\ k.pc = "write"
    /\ store' = write_credentials(store, k.uuid, k.creds, "committed")
    /\ lastWriter' = [lastWriter EXCEPT ![k.uuid] = Some(p)]
    /\ calls' = [calls EXCEPT ![p] =
            [k EXCEPT !.pc = "read",
                      !.trace = Append(k.trace, Event("write", k.uuid, "ok", 0, 0))]]
    /\ UNCHANGED finished

\* write_and_verify_once, storage.rs:56-59, of caller p, then the match of
\* retry_with_backoff on what it returned (storage.rs:33-44)
CallerReadsBack(p) ==
    LET k == calls[p]
        r == read_credentials(store, k.uuid, "found")
        ev == Event("read", k.uuid, IF r.val = None THEN "none" ELSE "some", 0, 0)
        once == write_and_verify_once_match(r)
        k1 == [k EXCEPT !.seen = r.val]
        k2 == IF once.tag = "Ok"
              THEN [k1 EXCEPT !.pc = "done", !.result = Ok(None),
                              !.trace = Append(k.trace, ev)]
              ELSE CallAttemptFailed(k1, once.err, Append(k.trace, ev))
    IN
    /\ k.pc = "read"
    /\ calls' = [calls EXCEPT ![p] = k2]
    /\ finished' = Completed(k2, p)
    /\ UNCHANGED <<store, lastWriter>>

\* retry_with_backoff, storage.rs:42: the sleep of caller p returns
CallerWakes(p) ==
    /\ calls[p].pc = "sleep"
    /\ calls' = [calls EXCEPT ![p].pc = "write"]
    /\ UNCHANGED <<store, lastWriter, finished>>

\* CredentialStorage::delete, storage.rs:71-74, of caller p
CallerDeletes(p) ==
    LET k == calls[p]
        k2 == [k EXCEPT !.pc = "done", !.result = Ok(None),
                        !.trace = <<Event("delete", k.uuid, "ok", 0, 0)>>]
    IN
    /\ k.pc = "delete"
    /\ store' = delete_credentials(store, k.uuid, "deleted")
    /\ calls' = [calls EXCEPT ![p] = k2]
    /\ finished' = Completed(k2, p)
    /\ UNCHANGED lastWriter

----------------------------------------------------------------------------
(* The persisted form of AccountCredentials: #[derive(Deserialize, Serialize)],
   credentials.rs:23-30.  The derive writes the struct as its five named
   fields in declaration order, an Option as null or as the value, and reads
   the fields back by name, a missing Option field as None.  The adapter's
   byte format carries names and values as they are. *)

\* models::TokenWithExpiry and models::XstsToken written field by field
EncodeToken(t) == <<t.token, t.expiry>>
DecodeToken(w) == [token |-> w[1], expiry |-> w[2]]
EncodeXsts(x) == <<x.token, x.userhash, x.expiry>>
DecodeXsts(w) == [token |-> w[1], userhash |-> w[2], expiry |-> w[3]]

\* Arc<str>, written as a string value
EncodeStr(v) == <<"str", v>>
DecodeStr(w) == w[2]

\* the field types of the struct
FieldTypes == {"Arc<str>", "TokenWithExpiry", "XstsToken"}

\* a value of field type ty
EncodeValue(v, ty) ==
    CASE ty = "Arc<str>" -> EncodeStr(v)
      [] ty = "TokenWithExpiry" -> EncodeToken(v)
      [] ty = "XstsToken" -> EncodeXsts(v)

DecodeValue(w, ty) ==
    CASE ty = "Arc<str>" -> DecodeStr(w)
      [] ty = "TokenWithExpiry" -> DecodeToken(w)
      [] ty = "XstsToken" -> DecodeXsts(w)

\* Option<T>: serialize_none / serialize_some
EncodeOption(o, ty) == IF o = None THEN <<"null">> ELSE <<"some", EncodeValue(o[1], ty)>>
DecodeOption(w, ty) == IF w[1] = "null" THEN None ELSE Some(DecodeValue(w[2], ty))

\* mutant: a field left out of the serialized form
Encode_SkipsAccessToken(c) ==
    << <<"msa_refresh", EncodeOption(c.msa_refresh, "Arc<str>")>>,
       <<"msa_access", EncodeOption(c.msa_access, "TokenWithExpiry")>>,
       <<"xbl", EncodeOption(c.xbl, "TokenWithExpiry")>>,
       <<"xsts", EncodeOption(c.xsts, "XstsToken")>> >>

\* derive(Serialize) for AccountCredentials
Encode(c) ==
    << <<"msa_refresh", EncodeOption(c.msa_refresh, "Arc<str>")>>,
       <<"msa_access", EncodeOption(c.msa_access, "TokenWithExpiry")>>,
       <<"xbl", EncodeOption(c.xbl, "TokenWithExpiry")>>,
       <<"xsts", EncodeOption(c.xsts, "XstsToken")>>,
       <<"access_token", EncodeOption(c.access_token, "TokenWithExpiry")>> >>

\* the value written under a field name, null when the field is missing
Field(w, name) ==
    IF \E i \in 1..Len(w) : w[i][1] = name
    THEN w[CHOOSE i \in 1..Len(w) : w[i][1] = name][2]
    ELSE <<"null">>

\* mutant: xbl read from the field of msa_access
Decode_XblFromMsaAccess(w) ==
    [msa_refresh |-> DecodeOption(Field(w, "msa_refresh"), "Arc<str>"),
     msa_access |-> DecodeOption(Field(w, "msa_access"), "TokenWithExpiry"),
     xbl |-> DecodeOption(Field(w, "msa_access"), "TokenWithExpiry"),
     xsts |-> DecodeOption(Field(w, "xsts"), "XstsToken"),
     access_token |-> DecodeOption(Field(w, "access_token"), "TokenWithExpiry")]

\* derive(Deserialize) for AccountCredentials
Decode(w) ==
    [msa_refresh |-> DecodeOption(Field(w, "msa_refresh"), "Arc<str>"),
     msa_access |-> DecodeOption(Field(w, "msa_access"), "TokenWithExpiry"),
     xbl |-> DecodeOption(Field(w, "xbl"), "TokenWithExpiry"),
     xsts |-> DecodeOption(Field(w, "xsts"), "XstsToken"),
     access_token |-> DecodeOption(Field(w, "access_token"), "TokenWithExpiry")]

\* the adapter serializes the chain for writing
EncodeChain ==
    /\ wire = <<>>
    /\ wire' = Encode(chain)
    /\ UNCHANGED <<chain, decoded>>

\* the adapter deserializes what it reads back
DecodeWire ==
    /\ wire # <<>>
    /\ decoded = None
    /\ decoded' = Some(Decode(wire))
    /\ UNCHANGED <<chain, wire>>

----------------------------------------------------------------------------
(* BackendAccountInfo, backend/src/account.rs *)

Usernames == {"alex", "steve"}

\* BackendAccount, account.rs:59-65 (the head image left out)
BackendAccount == [username : Usernames, offline : BOOLEAN]

\* BackendAccountInfo, account.rs:17-21; accounts maps an id to Some(account)
\* when the id is a key of the map
BackendAccountInfo ==
    [accounts : [Ids -> Opt(BackendAccount)], selected_account : Opt(Ids)]

\* #[derive(Default)]: no account, nothing selected
DefaultAccountInfo == [accounts |-> [id \in Ids |-> None], selected_account |-> None]

\* validate_accounts before it is called
ValidateAccountsIdle ==
    [pc |-> "idle", todo |-> {}, accounts_to_remove |-> <<>>,
     reads |-> [id \in Ids |-> "-"], pre |-> DefaultAccountInfo]

\* the keys of the accounts map
AccountIds(i) == {id \in Ids : i.accounts[id] # None}

\* mutant: an account whose read failed is kept
ShouldRemove_ErrorKeeps(r) == r.tag = "Ok" /\ r.val = None

\* account.rs:28-31, the match on read_credentials: Ok(Some(_)) => continue,
\* Ok(None) | Err(_) => accounts_to_remove.push(*uuid)
ShouldRemove(r) == ~(r.tag = "Ok" /\ r.val # None)

\* mutant: the account is removed and the selection left as it is
RemoveAccount_KeepsSelection(i, id) == [i EXCEPT !.accounts[id] = None]

\* account.rs:35-38, one iteration of the removal loop
RemoveAccount(i, id) ==
    [accounts |-> [i.accounts EXCEPT ![id] = None],
     selected_account |-> IF i.selected_account = Some(id) THEN None ELSE i.selected_account]

\* where validate_accounts goes on: the next account to read, the removal
\* loop, or the return
AfterScan(todo, rem) ==
    IF todo # {} THEN "scan" ELSE IF rem # <<>> THEN "remove" ELSE "done"

\* validate_accounts is called (account.rs:24-25)
ValidateAccountsCall ==
    /\ va.pc = "idle"
    /\ va' = [pc |-> AfterScan(AccountIds(info), <<>>),
              todo |-> AccountIds(info),
              accounts_to_remove |-> <<>>,
              reads |-> [id \in Ids |-> "-"],
              pre |-> info]
    /\ UNCHANGED <<info, store>>

\* account.rs:27-32, one iteration of the read loop; the map yields its keys
\* in no particular order
ScanStep ==
    /\ va.pc = "scan"
    /\ \E id \in va.todo, o \in ReadOutcomes :
        LET r == read_credentials(store, id, o)
            out == IF r.tag = "Err" THEN "err" ELSE IF r.val = None THEN "none" ELSE "some"
            rem == IF ShouldRemove(r) THEN Append(va.accounts_to_remove, id)
                                      ELSE va.accounts_to_remove
        IN va' = [va EXCEPT !.todo = va.todo \ {id},
                            !.accounts_to_remove = rem,
                            !.reads[id] = out,
                            !.pc = AfterScan(va.todo \ {id}, rem)]
    /\ UNCHANGED <<info, store>>

\* account.rs:34-39, one iteration of the removal loop
RemoveStep ==
    /\ va.pc = "remove"
    /\ info' = RemoveAccount(info, Head(va.accounts_to_remove))
    /\ va' = [va EXCEPT !.accounts_to_remove = Tail(va.accounts_to_remove),
                        !.pc = AfterScan({}, Tail(va.accounts_to_remove))]
    /\ UNCHANGED store

\* validate_accounts has returned (account.rs:40); it may be called again
ValidateAccountsReturn ==
    /\ va.pc = "done"
    /\ va' = ValidateAccountsIdle
    /\ UNCHANGED <<info, store>>

----------------------------------------------------------------------------
(* Specifications *)

NextResolve ==
    \/ Stage /\ UNCHANGED <<storeVars, validateVars, concVars, auxVars>>
    \/ Tick /\ UNCHANGED <<storeVars, validateVars, concVars, auxVars>>

\* every bounded chain at every clock reading, the storage service at rest
InitSpecResolve ==
    /\ chain \in AccountCredentials
    /\ now \in Times
    /\ pre = DefaultCredentials
    /\ ret = <<>>
    /\ lastNow = 0
    /\ vres = <<>>
    /\ vchain = DefaultCredentials
    /\ vNow = 0
    /\ store = EmptyStore
    /\ pc = "idle"
    /\ op = "none"
    /\ uuid = "u1"
    /\ creds = DefaultCredentials
    /\ attempts = 0
    /\ result = NoResult
    /\ trace = <<>>
    /\ clock = 0
    /\ calls = [p \in Callers |-> IdleCall]
    /\ lastWriter = [id \in Ids |-> None]
    /\ finished = <<>>
    /\ prior = EmptyStore
    /\ prevRet = <<>>
    /\ wire = <<>>
    /\ decoded = <<>>
    /\ info = DefaultAccountInfo
    /\ va = ValidateAccountsIdle

SpecResolve == InitSpecResolve /\ [][NextResolve]_vars

NextValidate ==
    \/ Stage /\ UNCHANGED <<storeVars, validateVars, concVars, auxVars>>
    \/ Tick /\ UNCHANGED <<storeVars, validateVars, concVars, auxVars>>
    \/ Validate /\ UNCHANGED <<storeVars, concVars, auxVars>>

\* the resolver and the validator on every bounded chain at every clock reading
InitSpecValidate ==
    /\ chain \in AccountCredentials
    /\ now \in Times
    /\ pre = DefaultCredentials
    /\ ret = <<>>
    /\ lastNow = 0
    /\ vres = <<>>
    /\ vchain = DefaultCredentials
    /\ vNow = 0
    /\ store = EmptyStore
    /\ pc = "idle"
    /\ op = "none"
    /\ uuid = "u1"
    /\ creds = DefaultCredentials
    /\ attempts = 0
    /\ result = NoResult
    /\ trace = <<>>
    /\ clock = 0
    /\ calls = [p \in Callers |-> IdleCall]
    /\ lastWriter = [id \in Ids |-> None]
    /\ finished = <<>>
    /\ prior = EmptyStore
    /\ prevRet = <<>>
    /\ wire = <<>>
    /\ decoded = <<>>
    /\ info = DefaultAccountInfo
    /\ va = ValidateAccountsIdle

SpecValidate == InitSpecValidate /\ [][NextValidate]_vars

NextStore ==
    \/ CallWriteAndVerify /\ UNCHANGED <<resolveVars, validateVars, concVars, auxVars>>
    \/ WriteStep /\ UNCHANGED <<resolveVars, validateVars, concVars, auxVars>>
    \/ ReadBackStep /\ UNCHANGED <<resolveVars, validateVars, concVars, auxVars>>
    \/ SleepStep /\ UNCHANGED <<resolveVars, validateVars, concVars, auxVars>>
    \/ Read /\ UNCHANGED <<resolveVars, validateVars, concVars, auxVars>>
    \/ Delete /\ UNCHANGED <<resolveVars, validateVars, concVars, auxVars>>
    \/ Return /\ UNCHANGED <<resolveVars, validateVars, concVars, auxVars>>

\* an empty store and a service at rest, the resolver at rest
InitSpecStore ==
    /\ chain = DefaultCredentials
    /\ now = 0
    /\ pre = DefaultCredentials
    /\ ret = <<>>
    /\ lastNow = 0
    /\ vres = <<>>
    /\ vchain = DefaultCredentials
    /\ vNow = 0
    /\ store = EmptyStore
    /\ pc = "idle"
    /\ op = "none"
    /\ uuid = "u1"
    /\ creds = DefaultCredentials
    /\ attempts = 0
    /\ result = NoResult
    /\ trace = <<>>
    /\ clock = 0
    /\ calls = [p \in Callers |-> IdleCall]
    /\ lastWriter = [id \in Ids |-> None]
    /\ finished = <<>>
    /\ prior = EmptyStore
    /\ prevRet = <<>>
    /\ wire = <<>>
    /\ decoded = <<>>
    /\ info = DefaultAccountInfo
    /\ va = ValidateAccountsIdle

SpecStore == InitSpecStore /\ [][NextStore]_vars

\* the storage service when every adapter call and every sleep that has been
\* started returns at some point
SpecStoreLive ==
    /\ InitSpecStore
    /\ [][NextStore]_vars
    /\ WF_vars(WriteStep /\ UNCHANGED <<resolveVars, validateVars, concVars, auxVars>>)
    /\ WF_vars(ReadBackStep /\ UNCHANGED <<resolveVars, validateVars, concVars, auxVars>>)
    /\ WF_vars(SleepStep /\ UNCHANGED <<resolveVars, validateVars, concVars, auxVars>>)

NextConcurrent ==
    \/ \E p \in Callers : CallerCalls(p) /\ UNCHANGED <<resolveVars, validateVars, callVars, auxVars>>
    \/ \E p \in Callers : CallerWrites(p) /\ UNCHANGED <<resolveVars, validateVars, callVars, auxVars>>
    \/ \E p \in Callers : CallerReadsBack(p) /\ UNCHANGED <<resolveVars, validateVars, callVars, auxVars>>
    \/ \E p \in Callers : CallerWakes(p) /\ UNCHANGED <<resolveVars, validateVars, callVars, auxVars>>
    \/ \E p \in Callers : CallerDeletes(p) /\ UNCHANGED <<resolveVars, validateVars, callVars, auxVars>>

\* an empty store, no caller has called yet
InitSpecConcurrent ==
    /\ chain = DefaultCredentials
    /\ now = 0
    /\ pre = DefaultCredentials
    /\ ret = <<>>
    /\ lastNow = 0
    /\ vres = <<>>
    /\ vchain = DefaultCredentials
    /\ vNow = 0
    /\ store = EmptyStore
    /\ pc = "idle"
    /\ op = "none"
    /\ uuid = "u1"
    /\ creds = DefaultCredentials
    /\ attempts = 0
    /\ result = NoResult
    /\ trace = <<>>
    /\ clock = 0
    /\ calls = [p \in Callers |-> IdleCall]
    /\ lastWriter = [id \in Ids |-> None]
    /\ finished = <<>>
    /\ prior = EmptyStore
    /\ prevRet = <<>>
    /\ wire = <<>>
    /\ decoded = <<>>
    /\ info = DefaultAccountInfo
    /\ va = ValidateAccountsIdle

SpecConcurrent == InitSpecConcurrent /\ [][NextConcurrent]_vars

\* the storage service with calls that may be abandoned; `prior` remembers
\* the store each write_and_verify started from
NextCancel ==
    \/ CallWriteAndVerify /\ prior' = store
            /\ UNCHANGED <<resolveVars, validateVars, concVars, prevRet, codecVars, accountVars>>
    \/ WriteStep /\ UNCHANGED <<resolveVars, validateVars, concVars, auxVars>>
    \/ ReadBackStep /\ UNCHANGED <<resolveVars, validateVars, concVars, auxVars>>
    \/ SleepStep /\ UNCHANGED <<resolveVars, validateVars, concVars, auxVars>>
    \/ Cancel /\ UNCHANGED <<resolveVars, validateVars, concVars, auxVars>>
    \/ Delete /\ UNCHANGED <<resolveVars, validateVars, concVars, auxVars>>
    \/ Return /\ UNCHANGED <<resolveVars, validateVars, concVars, auxVars>>

\* an empty store and a service at rest
InitSpecCancel ==
    /\ chain = DefaultCredentials
    /\ now = 0
    /\ pre = DefaultCredentials
    /\ ret = <<>>
    /\ lastNow = 0
    /\ vres = <<>>
    /\ vchain = DefaultCredentials
    /\ vNow = 0
    /\ store = EmptyStore
    /\ pc = "idle"
    /\ op = "none"
    /\ uuid = "u1"
    /\ creds = DefaultCredentials
    /\ attempts = 0
    /\ result = NoResult
    /\ trace = <<>>
    /\ clock = 0
    /\ calls = [p \in Callers |-> IdleCall]
    /\ lastWriter = [id \in Ids |-> None]
    /\ finished = <<>>
    /\ prior = EmptyStore
    /\ prevRet = <<>>
    /\ wire = <<>>
    /\ decoded = <<>>
    /\ info = DefaultAccountInfo
    /\ va = ValidateAccountsIdle

SpecCancel == InitSpecCancel /\ [][NextCancel]_vars

NextAccounts ==
    \/ ValidateAccountsCall /\ UNCHANGED <<resolveVars, validateVars, callVars, concVars, prior, prevRet, codecVars>>
    \/ ScanStep /\ UNCHANGED <<resolveVars, validateVars, callVars, concVars, prior, prevRet, codecVars>>
    \/ RemoveStep /\ UNCHANGED <<resolveVars, validateVars, callVars, concVars, prior, prevRet, codecVars>>
    \/ ValidateAccountsReturn /\ UNCHANGED <<resolveVars, validateVars, callVars, concVars, prior, prevRet, codecVars>>

\* every account list and selection a saved file can hold, over every store
InitSpecAccounts ==
    /\ chain = DefaultCredentials
    /\ now = 0
    /\ pre = DefaultCredentials
    /\ ret = <<>>
    /\ lastNow = 0
    /\ vres = <<>>
    /\ vchain = DefaultCredentials
    /\ vNow = 0
    /\ store \in [Ids -> {None, Intact(CredA)}]
    /\ pc = "idle"
    /\ op = "none"
    /\ uuid = "u1"
    /\ creds = DefaultCredentials
    /\ attempts = 0
    /\ result = NoResult
    /\ trace = <<>>
    /\ clock = 0
    /\ calls = [p \in Callers |-> IdleCall]
    /\ lastWriter = [id \in Ids |-> None]
    /\ finished = <<>>
    /\ prior = EmptyStore
    /\ prevRet = <<>>
    /\ wire = <<>>
    /\ decoded = <<>>
    /\ info \in BackendAccountInfo
    /\ va = ValidateAccountsIdle

SpecAccounts == InitSpecAccounts /\ [][NextAccounts]_vars

NextCodec ==
    \/ EncodeChain /\ UNCHANGED <<now, pre, ret, lastNow, validateVars, storeVars, concVars, prior, prevRet, accountVars>>
    \/ DecodeWire /\ UNCHANGED <<now, pre, ret, lastNow, validateVars, storeVars, concVars, prior, prevRet, accountVars>>

\* every bounded chain, nothing encoded yet
InitSpecCodec ==
    /\ chain \in AccountCredentials
    /\ now = 0
    /\ pre = DefaultCredentials
    /\ ret = <<>>
    /\ lastNow = 0
    /\ vres = <<>>
    /\ vchain = DefaultCredentials
    /\ vNow = 0
    /\ store = EmptyStore
    /\ pc = "idle"
    /\ op = "none"
    /\ uuid = "u1"
    /\ creds = DefaultCredentials
    /\ attempts = 0
    /\ result = NoResult
    /\ trace = <<>>
    /\ clock = 0
    /\ calls = [p \in Callers |-> IdleCall]
    /\ lastWriter = [id \in Ids |-> None]
    /\ finished = <<>>
    /\ prior = EmptyStore
    /\ prevRet = <<>>
    /\ wire = <<>>
    /\ decoded = <<>>
    /\ info = DefaultAccountInfo
    /\ va = ValidateAccountsIdle

SpecCodec == InitSpecCodec /\ [][NextCodec]_vars

\* repeated resolution of one chain as time passes, nothing merged into it
NextMonotone ==
    \/ StageAgain /\ UNCHANGED <<storeVars, validateVars, concVars, prior, codecVars, accountVars>>
    \/ Tick /\ UNCHANGED <<storeVars, validateVars, concVars, auxVars>>

\* every bounded chain at every clock reading, no call made yet
InitSpecMonotone ==
    /\ chain \in AccountCredentials
    /\ now \in Times
    /\ pre = DefaultCredentials
    /\ ret = <<>>
    /\ lastNow = 0
    /\ vres = <<>>
    /\ vchain = DefaultCredentials
    /\ vNow = 0
    /\ store = EmptyStore
    /\ pc = "idle"
    /\ op = "none"
    /\ uuid = "u1"
    /\ creds = DefaultCredentials
    /\ attempts = 0
    /\ result = NoResult
    /\ trace = <<>>
    /\ clock = 0
    /\ calls = [p \in Callers |-> IdleCall]
    /\ lastWriter = [id \in Ids |-> None]
    /\ finished = <<>>
    /\ prior = EmptyStore
    /\ prevRet = <<>>
    /\ wire = <<>>
    /\ decoded = <<>>
    /\ info = DefaultAccountInfo
    /\ va = ValidateAccountsIdle

SpecMonotone == InitSpecMonotone /\ [][NextMonotone]_vars

----------------------------------------------------------------------------
(* Resolver properties *)

ExpiringStages == {"MsaAccess", "XboxLive", "XboxSecure", "AccessToken"}

\* the slot of the chain that backs a stage
SlotName(s) ==
    CASE s = "MsaRefresh" -> "msa_refresh"
      [] s = "MsaAccess" -> "msa_access"
      [] s = "XboxLive" -> "xbl"
      [] s = "XboxSecure" -> "xsts"
      [] s = "AccessToken" -> "access_token"

Slot(c, s) == c[SlotName(s)]

\* present with now >= expiry
ExpiredAt(c, s, t) == Slot(c, s) # None /\ t >= Slot(c, s)[1].expiry

\* usable: present, and for an expiring slot now < expiry
Usable(c, s, t) ==
    /\ Slot(c, s) # None
    /\ s \in ExpiringStages => t < Slot(c, s)[1].expiry

UsableStages(c, t) == {s \in ExpiringStages \cup {"MsaRefresh"} : Usable(c, s, t)}

\* the payload the variant of stage s carries for chain c
Payload(c, s) ==
    CASE s = "Initial" -> <<"Initial">>
      [] s = "MsaRefresh" -> <<s, c.msa_refresh[1]>>
      [] s = "XboxSecure" -> <<s, c.xsts[1].token, c.xsts[1].userhash>>
      [] OTHER -> <<s, Slot(c, s)[1].token>>

MostAdvancedUsable(c, t) ==
    IF UsableStages(c, t) = {} THEN "Initial"
    ELSE CHOOSE s \in UsableStages(c, t) :
            \A u \in UsableStages(c, t) : StageRank(u) <= StageRank(s)

Called == ret # <<>>

\* C1: stage() returns the variant of the most advanced slot usable at the
\* clock reading of the call (Initial only when no slot is usable), carrying
\* the token of that slot (token and userhash for XboxSecure).
C1_StageIsMostAdvancedUsable ==
    Called =>
        /\ ret = Payload(pre, MostAdvancedUsable(pre, lastNow))
        /\ (StageOf(ret) = "Initial" <=> UsableStages(pre, lastNow) = {})

\* C1 witness: a call that skipped an expired access token and an absent
\* xsts slot and resumed at the identity-exchange token.
C1_Witness ==
    /\ Called
    /\ StageOf(ret) = "XboxLive"
    /\ ExpiredAt(pre, "AccessToken", lastNow)
    /\ pre.xsts = None
    /\ pre.msa_access # None

\* C10 as claimed: after stage() returns, no expiring slot of the chain is
\* present with now >= expiry.
C10_NoExpiredSlotLeft ==
    Called => \A s \in ExpiringStages : ~ExpiredAt(chain, s, lastNow)

\* C10 amended: after stage() returns stage S, every slot more advanced than
\* S is absent and no expiring slot at or above S is present with
\* now >= expiry (slots of earlier stages are not examined).
C10_NoExpiredSlotAtOrAboveStage ==
    Called =>
        \A s \in ExpiringStages :
            /\ StageRank(s) > StageRank(StageOf(ret)) => Slot(chain, s) = None
            /\ StageRank(s) >= StageRank(StageOf(ret)) => ~ExpiredAt(chain, s, lastNow)

\* C10 witness: a call that found an expired slot, cleared it, and returned
\* a later-checked stage below which another expired slot is still stored.
C10_Witness ==
    /\ Called
    /\ ExpiredAt(pre, "AccessToken", lastNow)
    /\ chain.access_token = None
    /\ StageOf(ret) = "XboxSecure"
    /\ ExpiredAt(chain, "XboxLive", lastNow)

\* C11: stage() is idempotent at a fixed time: a call made at the clock
\* reading of the call before it, on the chain that call left, returns the
\* same variant and leaves the chain as it was.
C11_StageIdempotentAtFixedTime ==
    [][(Called /\ lastNow = now /\ now' = now) => (ret' = ret /\ chain' = chain)]_vars

\* C11 witness: a first call has cleared slots and returned a stage, and the
\* clock has not moved, so the next step of the caller is the second call.
C11_Witness ==
    /\ Called
    /\ lastNow = now
    /\ pre # chain
    /\ StageOf(ret) = "XboxLive"
    /\ ExpiredAt(chain, "MsaAccess", now)

AllPresentUnexpired(c, t) ==
    /\ c.msa_refresh # None
    /\ \A s \in ExpiringStages : Slot(c, s) # None /\ t < Slot(c, s)[1].expiry

\* C12: when all five slots are present and the four expiring ones are
\* unexpired, stage() returns AccessToken with the access token and changes
\* no slot.
C12_FullChainReturnsAccessToken ==
    (Called /\ AllPresentUnexpired(pre, lastNow)) =>
        /\ ret = <<"AccessToken", pre.access_token[1].token>>
        /\ chain = pre

\* C12 witness: a call on a full, unexpired chain.
C12_Witness ==
    /\ Called
    /\ AllPresentUnexpired(pre, lastNow)
    /\ lastNow > 0

\* C13: with access_token absent or expired and xsts present and unexpired,
\* stage() leaves access_token absent, returns XboxSecure with the token and
\* userhash of the xsts slot, and leaves xsts, xbl, msa_access and
\* msa_refresh as they were, expired or not.
C13_XboxSecureFrame ==
    (Called /\ ~Usable(pre, "AccessToken", lastNow) /\ Usable(pre, "XboxSecure", lastNow)) =>
        /\ chain.access_token = None
        /\ ret = <<"XboxSecure", pre.xsts[1].token, pre.xsts[1].userhash>>
        /\ chain.xsts = pre.xsts
        /\ chain.xbl = pre.xbl
        /\ chain.msa_access = pre.msa_access
        /\ chain.msa_refresh = pre.msa_refresh

\* C13 witness: an expired access token was cleared, XboxSecure returned, and
\* an expired xbl slot left in place.
C13_Witness ==
    /\ Called
    /\ ExpiredAt(pre, "AccessToken", lastNow)
    /\ StageOf(ret) = "XboxSecure"
    /\ ExpiredAt(chain, "XboxLive", lastNow)
    /\ chain.msa_refresh # None

NoExpiringUsable(c, t) == \A s \in ExpiringStages : ~Usable(c, s, t)

\* C14: on the all-absent chain stage() returns Initial and leaves it
\* all-absent; it returns Initial exactly when msa_refresh is absent and each
\* expiring slot is absent or expired, and MsaRefresh (with the refresh
\* token) whenever msa_refresh is present and each expiring slot is absent or
\* expired, at any clock reading.
C14_InitialAndRefresh ==
    Called =>
        /\ pre = DefaultCredentials => (ret = <<"Initial">> /\ chain = DefaultCredentials)
        /\ ret = <<"Initial">> <=> (pre.msa_refresh = None /\ NoExpiringUsable(pre, lastNow))
        /\ (pre.msa_refresh # None /\ NoExpiringUsable(pre, lastNow)) =>
                ret = <<"MsaRefresh", pre.msa_refresh[1]>>

\* C14 witness: the refresh token returned at the last clock reading, behind
\* an expired platform access token.
C14_Witness ==
    /\ Called
    /\ lastNow = MaxTime
    /\ StageOf(ret) = "MsaRefresh"
    /\ ExpiredAt(pre, "MsaAccess", lastNow)
    /\ chain.msa_access = None

----------------------------------------------------------------------------
(* Validator properties *)

Validated == vres # <<>>

\* the slot a token kind names
KindSlot(c, k) ==
    CASE k = "AccessToken" -> c.access_token
      [] k = "Xsts" -> c.xsts
      [] k = "Xbl" -> c.xbl
      [] k = "MsaAccess" -> c.msa_access
      [] k = "MsaRefresh" -> c.msa_refresh

\* refresh token: invalid iff absent; the others: invalid iff absent or now >= expiry
KindInvalid(c, k, t) ==
    \/ KindSlot(c, k) = None
    \/ k # "MsaRefresh" /\ t >= KindSlot(c, k)[1].expiry

InvalidKinds(c, t) == {k \in TokenType : KindInvalid(c, k, t)}

\* the kinds an Invalid result lists
Listed(r) == IF r[1] = "Invalid" THEN {r[2][i] : i \in 1..Len(r[2])} ELSE {}

\* C15: validate_token_chain checks all five slots and returns Invalid with
\* exactly the kinds whose slot is invalid at now, each once, and Valid iff
\* there is none; the all-absent chain yields the five kinds and a full
\* unexpired chain Valid.
C15_ValidateListsExactlyInvalid ==
    Validated =>
        /\ vres[1] \in {"Valid", "Invalid"}
        /\ vres[1] = "Valid" <=> InvalidKinds(vchain, vNow) = {}
        /\ vres[1] = "Invalid" =>
              /\ Listed(vres) = InvalidKinds(vchain, vNow)
              /\ Len(vres[2]) = Cardinality(InvalidKinds(vchain, vNow))
        /\ vchain = DefaultCredentials => Listed(vres) = TokenType
        /\ AllPresentUnexpired(vchain, vNow) => vres = <<"Valid">>

\* C15 witness: a validation that reported one expired and one absent slot
\* and passed the other three.
C15_Witness ==
    /\ Validated
    /\ Listed(vres) = {"Xsts", "MsaAccess"}
    /\ vchain.xsts # None
    /\ vchain.msa_access = None

SameInput == Called /\ Validated /\ vchain = pre /\ vNow = lastNow

\* C16: on the same chain at the same clock reading, Valid from the
\* validator implies AccessToken from the resolver, and the validator lists
\* all five kinds iff the resolver returns Initial.
C16_ResolverValidatorAgree ==
    SameInput =>
        /\ vres[1] = "Valid" => StageOf(ret) = "AccessToken"
        /\ Listed(vres) = TokenType <=> StageOf(ret) = "Initial"

\* C16 witness: both ran on a chain whose every slot is absent or expired,
\* one of them present.
C16_Witness ==
    /\ SameInput
    /\ Listed(vres) = TokenType
    /\ StageOf(ret) = "Initial"
    /\ pre.xbl # None

----------------------------------------------------------------------------
(* Storage service properties, over the history of a write_and_verify call *)

InWriteAndVerify == op = "write_and_verify"
Returned == pc = "done"

WriteIdx(tr) == {i \in 1..Len(tr) : tr[i].ev = "write"}
ReadIdx(tr) == {i \in 1..Len(tr) : tr[i].ev = "read"}
SleepIdx(tr) == {i \in 1..Len(tr) : tr[i].ev = "sleep"}
NumWrites(tr) == Cardinality(WriteIdx(tr))
NumReads(tr) == Cardinality(ReadIdx(tr))
NumSleeps(tr) == Cardinality(SleepIdx(tr))

\* the attempt event i belongs to: the number of writes issued up to it
AttemptOf(tr, i) == Cardinality({j \in WriteIdx(tr) : j <= i})
NthWrite(tr, k) == CHOOSE i \in WriteIdx(tr) : AttemptOf(tr, i) = k

\* an adapter call that makes its attempt fail
IsFailure(e) ==
    \/ e.ev = "write" /\ e.out = "err"
    \/ e.ev = "read" /\ e.out \in {"none", "err"}

\* attempt k: its write succeeded and its read-back returned a record
Verified(tr, k) ==
    LET i == NthWrite(tr, k) IN
    /\ tr[i].out = "ok"
    /\ i < Len(tr)
    /\ tr[i + 1].ev = "read"
    /\ tr[i + 1].out = "some"

\* C2 as claimed: write_and_verify returns Ok only if the store holds, for
\* the id of the call, a record equal to the credentials passed in.
C2_OkOnlyIfStoredEqual ==
    (InWriteAndVerify /\ Returned /\ result.tag = "Ok") => store[uuid] = Intact(creds)

\* C3: write_and_verify returns Ok iff one of its attempts had a successful
\* write followed by a read-back that returned a record; an attempt whose
\* read-back found nothing is never reported as success; when every attempt
\* failed the call returns an error.
C3_OkIffVerifiedAttempt ==
    (InWriteAndVerify /\ Returned) =>
        /\ result.tag \in {"Ok", "Err"}
        /\ result.tag = "Ok" <=> \E k \in 1..NumWrites(trace) : Verified(trace, k)
        /\ trace[Len(trace)].out = "none" => result.tag = "Err"
        /\ result.tag = "Err" => result.err \in AuthError

\* C3 witness: a call that returned Ok on a later attempt, after an attempt
\* whose read-back found nothing.
C3_Witness ==
    /\ InWriteAndVerify /\ Returned /\ result.tag = "Ok"
    /\ \E i \in ReadIdx(trace) : trace[i].out = "none"

\* C4: at most 3 attempts; an attempt after the first starts only after the
\* previous attempt failed (and its back-off sleep) with fewer than 3 made;
\* every attempt is the full cycle, write then read-back; the call returns at
\* the first successful attempt with no further adapter call.
C4_AtMostThreeFullCycles ==
    InWriteAndVerify =>
        /\ NumWrites(trace) <= 3
        /\ \A i \in WriteIdx(trace) :
            /\ i = 1 \/ (i >= 3 /\ trace[i - 1].ev = "sleep" /\ IsFailure(trace[i - 2])
                          /\ AttemptOf(trace, i - 2) < 3)
            /\ (trace[i].out = "ok" /\ i < Len(trace)) =>
                    (trace[i + 1].ev = "read" /\ trace[i + 1].id = trace[i].id)
            /\ (trace[i].out = "ok" /\ i = Len(trace)) => pc = "read"
        /\ \A i \in ReadIdx(trace) :
            /\ i > 1 /\ trace[i - 1].ev = "write" /\ trace[i - 1].out = "ok"
            /\ trace[i].out = "some" => (i = Len(trace) /\ Returned /\ result.tag = "Ok")
        /\ \A i \in 1..Len(trace) : trace[i].ev \in {"write", "read", "sleep"}
        /\ (Returned /\ result.tag = "Ok") => trace[Len(trace)].out = "some"

\* C4 witness: a third attempt under way after two failed ones.
C4_Witness ==
    /\ InWriteAndVerify /\ pc = "read"
    /\ NumWrites(trace) = 3

\* C5: when all 3 attempts fail the error returned is VerificationFailed if
\* the final attempt failed by a missing read-back and StorageError if the
\* final attempt's write or read-back returned an error, whatever the
\* earlier attempts' failures were.
C5_FinalErrorIsLastAttempts ==
    (InWriteAndVerify /\ Returned /\ result.tag = "Err") =>
        LET last == trace[Len(trace)] IN
        /\ NumWrites(trace) = 3
        /\ AttemptOf(trace, Len(trace)) = 3
        /\ (last.ev = "read" /\ last.out = "none") => result.err = "VerificationFailed"
        /\ last.out = "err" => result.err = "StorageError"
        /\ (last.ev = "read" /\ last.out = "none") \/ last.out = "err"

\* C5 witness: a final write error returned as StorageError after earlier
\* attempts that failed by a missing read-back.
C5_Witness ==
    /\ InWriteAndVerify /\ Returned
    /\ result = Err("StorageError")
    /\ trace[Len(trace)].ev = "write"
    /\ trace[2].ev = "read" /\ trace[2].out = "none"

\* the delays handed to sleep(), in order
SleepDelays(tr) == [k \in 1..NumSleeps(tr) |->
    tr[CHOOSE i \in SleepIdx(tr) : Cardinality({j \in SleepIdx(tr) : j <= i}) = k].arg]

\* C6: no delay before the first attempt, 100 ms between the failure of
\* attempt 1 and attempt 2, 200 ms between the failure of attempt 2 and
\* attempt 3, no delay after the final failed attempt; a call that succeeds
\* at once never sleeps and no call sleeps more than twice.
C6_BackoffSchedule ==
    InWriteAndVerify =>
        /\ SleepDelays(trace) \in {<<>>, <<100>>, <<100, 200>>}
        /\ Len(trace) > 0 => trace[1].ev = "write"
        /\ \A i \in SleepIdx(trace) :
            /\ i > 1 /\ IsFailure(trace[i - 1])
            /\ i < Len(trace) =>
                    /\ trace[i + 1].ev = "write"
                    /\ trace[i + 1].t - trace[i].t >= trace[i].arg
            /\ i = Len(trace) => pc \in {"sleep", "write"}
            /\ trace[i].arg = IF AttemptOf(trace, i) = 1 THEN 100 ELSE 200
        /\ (Returned /\ NumWrites(trace) = 1) => NumSleeps(trace) = 0
        /\ (Returned /\ result.tag = "Err") =>
                (NumSleeps(trace) = 2 /\ trace[Len(trace)].ev # "sleep")

\* C6 witness: a call that failed three times, having slept 100 ms then 200 ms.
C6_Witness ==
    /\ InWriteAndVerify /\ Returned /\ result.tag = "Err"
    /\ SleepDelays(trace) = <<100, 200>>

\* C7 as claimed: with k attempts already made, the delay slept before
\* attempt k+1 is base_delay * 2^k.
C7_DelayIsBaseTimesTwoToK ==
    InWriteAndVerify =>
        \A i \in SleepIdx(trace) : trace[i].arg = base_delay * 2^AttemptOf(trace, i)

\* C7 amended: with k attempts already made (k = 1, 2), the delay slept
\* before attempt k+1 is base_delay * 2^(k-1), base_delay = 100 ms.
C7_DelayIsBaseTimesTwoToKMinusOne ==
    InWriteAndVerify =>
        \A i \in SleepIdx(trace) :
            /\ AttemptOf(trace, i) \in {1, 2}
            /\ trace[i].arg = base_delay * 2^(AttemptOf(trace, i) - 1)
            /\ base_delay = 100

\* C7 witness: the sleep before the third attempt has been requested.
C7_Witness ==
    /\ InWriteAndVerify /\ pc = "sleep"
    /\ AttemptOf(trace, Len(trace)) = 2

\* the store of C8's scenario: every write succeeds, the read-back finds
\* nothing on attempts 1 and 2 and returns the record from attempt 3 on
FailsReadBackTwice(tr) ==
    /\ \A i \in WriteIdx(tr) : tr[i].out = "ok"
    /\ \A i \in ReadIdx(tr) :
        tr[i].out = IF AttemptOf(tr, i) <= 2 THEN "none" ELSE "some"

\* C8: against that store write_and_verify returns Ok having issued exactly
\* 3 writes, at least 100 ms between the first and the second and at least
\* 200 ms between the second and the third.
C8_ThirdAttemptSucceeds ==
    (InWriteAndVerify /\ FailsReadBackTwice(trace)) =>
        /\ NumWrites(trace) <= 3
        /\ NumWrites(trace) >= 2 =>
              trace[NthWrite(trace, 2)].t - trace[NthWrite(trace, 1)].t >= 100
        /\ NumWrites(trace) >= 3 =>
              trace[NthWrite(trace, 3)].t - trace[NthWrite(trace, 2)].t >= 200
        /\ Returned => (result = Ok(None) /\ NumWrites(trace) = 3)

\* C8 witness: the scenario ran to its end.
C8_Witness ==
    /\ InWriteAndVerify /\ Returned /\ FailsReadBackTwice(trace)
    /\ NumReads(trace) = 3

\* the store of C9's scenario: every write succeeds, every read-back finds nothing
AlwaysFailsReadBack(tr) ==
    /\ \A i \in WriteIdx(tr) : tr[i].out = "ok"
    /\ \A i \in ReadIdx(tr) : tr[i].out = "none"

\* C9: against that store write_and_verify returns VerificationFailed after
\* exactly 3 attempts: 3 writes and 3 read-backs, never fewer, never more.
C9_VerificationFailedAfterThree ==
    (InWriteAndVerify /\ AlwaysFailsReadBack(trace)) =>
        /\ NumWrites(trace) <= 3 /\ NumReads(trace) <= 3
        /\ Returned =>
            /\ result = Err("VerificationFailed")
            /\ NumWrites(trace) = 3
            /\ NumReads(trace) = 3

\* C9 witness: the call returned against a store that never showed the record.
C9_Witness ==
    /\ InWriteAndVerify /\ Returned /\ AlwaysFailsReadBack(trace)
    /\ store[uuid] = None

\* C17: read and delete each issue exactly one adapter call, for the id
\* given, never retry and never sleep, and return the adapter's result as it
\* is: Ok(Some(record)), Ok(None) or Ok(()), and an adapter error as
\* StorageError.
C17_ReadDeletePassThrough ==
    (Returned /\ op \in {"read", "delete"}) =>
        /\ Len(trace) = 1
        /\ trace[1].ev = op
        /\ trace[1].id = uuid
        /\ attempts = 0
        /\ trace[1].out = "err" => result = Err("StorageError")
        /\ (op = "read" /\ trace[1].out = "none") => result = Ok(None)
        /\ (op = "read" /\ trace[1].out = "some") =>
                (store[uuid] # None /\ result = Ok(store[uuid]))
        /\ (op = "delete" /\ trace[1].out = "ok") => (result = Ok(None) /\ store[uuid] = None)
        /\ trace[1].out \in {"err", "none", "some", "ok"}

\* C17 witness: a read returned the stored record of the second account.
C17_Witness ==
    /\ Returned /\ op = "read"
    /\ uuid = "u2"
    /\ result.tag = "Ok" /\ result.val = Intact(CredB)

----------------------------------------------------------------------------
(* Concurrent callers: properties *)

Started(p) == calls[p].op # "none"
CallDone(p) == calls[p].pc = "done"
WroteAndVerified(p) == calls[p].op = "write_and_verify" /\ CallDone(p)

\* no other caller that has called uses p's account id
AloneOnItsId(p) ==
    \A q \in Callers \ {p} : Started(q) => calls[q].uuid # calls[p].uuid

\* what a write_and_verify of k's arguments does when it runs alone
RunAlone(k) ==
    [result |-> Ok(None),
     trace |-> <<Event("write", k.uuid, "ok", 0, 0), Event("read", k.uuid, "some", 0, 0)>>,
     stored |-> Intact(k.creds)]

\* C18: a call touches the adapter only under its own account id, and a
\* write_and_verify whose id no other call uses returns what it returns when
\* run alone and leaves its own record stored, whatever the calls for other
\* ids do.
C18_DifferentIdsIndependent ==
    \A p \in Callers :
        /\ \A i \in 1..Len(calls[p].trace) : calls[p].trace[i].id = calls[p].uuid
        /\ (WroteAndVerified(p) /\ AloneOnItsId(p)) =>
                /\ calls[p].result = RunAlone(calls[p]).result
                /\ calls[p].trace = RunAlone(calls[p]).trace
                /\ store[calls[p].uuid] = RunAlone(calls[p]).stored

\* C18 witness: p1 has written and verified u2 alone while, on u1, a delete
\* made p2's read-back fail and p2 is about to retry.
C18_Witness ==
    /\ WroteAndVerified("p1") /\ calls["p1"].uuid = "u2" /\ AloneOnItsId("p1")
    /\ finished = <<"p3", "p1">>
    /\ calls["p2"].op = "write_and_verify" /\ calls["p2"].uuid = "u1"
    /\ calls["p2"].pc = "sleep"
    /\ calls["p3"].op = "delete" /\ calls["p3"].uuid = "u1"

\* the position of p's return among the returns
ReturnRank(p) == CHOOSE i \in 1..Len(finished) : finished[i] = p

\* p and q are the only calls on their account id
OnlyPairOnId(p, q) ==
    /\ p # q
    /\ calls[p].uuid = calls[q].uuid
    /\ \A r \in Callers \ {p, q} : Started(r) => calls[r].uuid # calls[p].uuid

\* C19: when two write_and_verify calls for one account id have both
\* returned, the record stored for the id is the credentials of the call that
\* returned last.
C19_LastCompletedIsPersisted ==
    \A p, q \in Callers :
        (/\ OnlyPairOnId(p, q)
         /\ WroteAndVerified(p) /\ WroteAndVerified(q)
         /\ ReturnRank(q) < ReturnRank(p))
            => store[calls[p].uuid] = Intact(calls[p].creds)

\* a call returned Ok while the store holds another writer's record, not its own
FalseSuccess(p) ==
    /\ WroteAndVerified(p)
    /\ calls[p].result = Ok(None)
    /\ store[calls[p].uuid] # Intact(calls[p].creds)
    /\ \E q \in Callers \ {p} :
        /\ lastWriter[calls[p].uuid] = Some(q)
        /\ store[calls[p].uuid] = Intact(calls[q].creds)

\* an attempt of p wrote, the write was applied, and its read-back found nothing
FalseFailure(p) ==
    \E i \in 1..(Len(calls[p].trace) - 1) :
        /\ calls[p].trace[i].ev = "write" /\ calls[p].trace[i].out = "ok"
        /\ calls[p].trace[i + 1].ev = "read" /\ calls[p].trace[i + 1].out = "none"

\* q has written a record under p's account id
OtherWriter(p, q) ==
    /\ q # p
    /\ calls[q].op = "write_and_verify"
    /\ calls[q].uuid = calls[p].uuid
    /\ \E i \in 1..Len(calls[q].trace) : calls[q].trace[i].ev = "write"

\* q has deleted the record under p's account id
OtherDeleter(p, q) ==
    /\ q # p
    /\ calls[q].op = "delete"
    /\ calls[q].uuid = calls[p].uuid
    /\ CallDone(q)

\* C20: the service does not serialize operations on one account id, so a
\* verification can be wrong in both directions, and only through another
\* operation on the same id: a write_and_verify returns Ok on a record that is
\* its own or another writer's of that id, and an attempt whose write was
\* applied fails its read-back only when a delete for that id has run.
C20_FalseVerdictsFromSameIdOverlap ==
    \A p \in Callers :
        /\ (WroteAndVerified(p) /\ calls[p].result.tag = "Ok") =>
                \/ calls[p].seen = Intact(calls[p].creds)
                \/ \E q \in Callers : OtherWriter(p, q) /\ calls[p].seen = Intact(calls[q].creds)
        /\ FalseFailure(p) => \E q \in Callers : OtherDeleter(p, q)

\* C20 witness: p2's first attempt failed its read-back because p3's delete
\* ran after p2's write, and p1 returned Ok on the record p2 wrote in its
\* retry.
C20_Witness ==
    /\ FalseSuccess("p1")
    /\ calls["p1"].seen = Intact(calls["p2"].creds)
    /\ FalseFailure("p2")
    /\ OtherDeleter("p2", "p3")

----------------------------------------------------------------------------
(* Abandoned calls: properties *)

Abandoned == op = "write_and_verify" /\ pc = "cancelled"

\* the call issued no delete
NoDeleteIssued == \A i \in 1..Len(trace) : trace[i].ev \in {"write", "read", "sleep"}

\* C21 as stated: after a write_and_verify is abandoned the record of its id
\* is what it was before the call or the complete credentials being written,
\* no other id is touched and no delete was issued.
C21_AbandonedLeavesPriorOrComplete ==
    Abandoned =>
        /\ store[uuid] \in {prior[uuid], Intact(creds)}
        /\ \A id \in Ids \ {uuid} : store[id] = prior[id]
        /\ NoDeleteIssued

\* C21 amended: on every path of write_and_verify (running, returned or
\* abandoned) the record of its id is what it was before the call or the
\* credentials being written as the adapter stored them, a record that is
\* present stays present, no other id is touched and no delete is issued.
C21_NoRollbackOnAnyPath ==
    [][(op' = "write_and_verify") =>
            /\ store'[uuid'] \in {prior'[uuid'], Intact(creds'), Truncated(creds')}
            /\ \A id \in Ids \ {uuid'} : store'[id] = prior'[id]
            /\ (op = "write_and_verify" /\ store[uuid] # None) => store'[uuid'] # None
            /\ NoDeleteIssued']_vars

\* C21 witness: a call abandoned after its write was committed and before
\* its read-back returned, over an older record of the same id.
C21_Witness ==
    /\ Abandoned
    /\ trace = <<Event("write", uuid, "ok", 0, 0)>>
    /\ prior[uuid] # None
    /\ prior[uuid] # store[uuid]
    /\ store[uuid] = Intact(creds)

----------------------------------------------------------------------------
(* Account list: properties *)

AccountsValidated == va.pc = "done"

\* the selection is nothing or a key of the accounts map
SelectionInList(i) ==
    i.selected_account = None \/ i.selected_account[1] \in AccountIds(i)

\* C22: validate_accounts reads every listed account once, removes exactly
\* those whose read gave 'not found' or an error, keeps every account whose
\* read gave a record as it was, returns whatever the reads gave, and clears
\* the selection when the selected account was removed.
C22_RemovesExactlyUnreadable ==
    AccountsValidated =>
        /\ \A id \in Ids :
            /\ va.pre.accounts[id] = None => (va.reads[id] = "-" /\ info.accounts[id] = None)
            /\ va.pre.accounts[id] # None => va.reads[id] \in {"some", "none", "err"}
            /\ va.reads[id] \in {"none", "err"} => info.accounts[id] = None
            /\ va.reads[id] = "some" => info.accounts[id] = va.pre.accounts[id]
        /\ \A id \in AccountIds(va.pre) \ AccountIds(info) :
            va.pre.selected_account = Some(id) => info.selected_account = None

\* C22 witness: of two accounts the selected one failed its read and was
\* removed, the other one had a record and was kept.
C22_Witness ==
    /\ AccountsValidated
    /\ AccountIds(va.pre) = Ids
    /\ va.pre.selected_account = Some("u2")
    /\ va.reads["u2"] = "err" /\ va.reads["u1"] = "some"
    /\ AccountIds(info) = {"u1"}
    /\ info.selected_account = None

\* C30: if the selection was nothing or a listed account before
\* validate_accounts, it is so after it, and it is unchanged whenever the
\* selected account was retained.
C30_SelectionStaysInList ==
    AccountsValidated =>
        /\ SelectionInList(va.pre) => SelectionInList(info)
        /\ \A id \in AccountIds(info) :
            va.pre.selected_account = Some(id) => info.selected_account = Some(id)

\* C30 witness: the selected account was retained while the other one was
\* removed, and it is still selected.
C30_Witness ==
    /\ AccountsValidated
    /\ AccountIds(va.pre) = Ids
    /\ va.pre.selected_account = Some("u1")
    /\ va.reads["u2"] = "none"
    /\ AccountIds(info) = {"u1"}
    /\ info.selected_account = Some("u1")

----------------------------------------------------------------------------
(* Error kinds: properties *)

\* C23: each of the three error kinds of AuthError is returned to the caller
\* by some execution of write_and_verify, read or delete.
C23_AllThreeKindsReturned == AuthError \subseteq ReturnableErrors

\* what the service does return: a storage error or a verification failure
C23_OnlyTwoKindsReturned ==
    (Returned /\ result.tag = "Err") => result.err \in {"StorageError", "VerificationFailed"}

----------------------------------------------------------------------------
(* Persisted form: properties *)

----------------------------------------------------------------------------
(* Resolver and validator: the expiry boundary *)

\* the token kind the validator reports for the slot of a stage
StageKind(s) ==
    CASE s = "AccessToken" -> "AccessToken"
      [] s = "XboxSecure" -> "Xsts"
      [] s = "XboxLive" -> "Xbl"
      [] s = "MsaAccess" -> "MsaAccess"

\* present with expiry equal to the clock reading
ExpiresExactlyAt(c, s, t) == Slot(c, s) # None /\ Slot(c, s)[1].expiry = t

\* C25: on the same chain and clock reading, an expiring slot that stage()
\* returns is not reported by validate_token_chain, a slot stage() checked and
\* passed over is reported and left cleared, and a slot whose expiry equals
\* the clock reading is never returned and always reported.
C25_SameExpiryBoundary ==
    SameInput =>
        \A s \in ExpiringStages :
            /\ StageOf(ret) = s => StageKind(s) \notin Listed(vres)
            /\ StageRank(s) > StageRank(StageOf(ret)) =>
                    (StageKind(s) \in Listed(vres) /\ Slot(chain, s) = None)
            /\ ExpiresExactlyAt(pre, s, lastNow) =>
                    (StageKind(s) \in Listed(vres) /\ StageOf(ret) # s)

\* C25 witness: the identity-exchange token expires exactly at the clock
\* reading; stage() cleared it and resumed one stage lower, and the validator
\* reported it.
C25_Witness ==
    /\ SameInput
    /\ lastNow > 0
    /\ pre.access_token = None /\ pre.xsts = None
    /\ ExpiresExactlyAt(pre, "XboxLive", lastNow)
    /\ chain.xbl = None
    /\ StageOf(ret) = "MsaAccess"
    /\ "Xbl" \in Listed(vres)

----------------------------------------------------------------------------
(* Resolver: frame and repeated resolution *)

SlotStages == ExpiringStages \cup {"MsaRefresh"}

\* C26: after stage() returns stage S, every slot of a later stage is absent,
\* the slot of S (S not Initial) is present, as it was, and is what the
\* variant carries, every slot of an earlier stage is as it was before the
\* call, and msa_refresh is never modified.
C26_ResolveFrame ==
    Called =>
        /\ \A s \in SlotStages :
            /\ StageRank(s) > StageRank(StageOf(ret)) => Slot(chain, s) = None
            /\ s = StageOf(ret) =>
                    /\ Slot(chain, s) # None
                    /\ Slot(chain, s) = Slot(pre, s)
                    /\ ret = Payload(chain, s)
            /\ StageRank(s) < StageRank(StageOf(ret)) => Slot(chain, s) = Slot(pre, s)
        /\ chain.msa_refresh = pre.msa_refresh

\* C26 witness: two expired slots above the returned stage were cleared and
\* an expired slot below it was left as it was.
C26_Witness ==
    /\ Called
    /\ StageOf(ret) = "XboxLive"
    /\ pre.access_token # None /\ chain.access_token = None
    /\ pre.xsts # None /\ chain.xsts = None
    /\ ExpiredAt(chain, "MsaAccess", lastNow)
    /\ chain.msa_refresh # None

\* C27: with nothing merged into the chain, a later stage() call never
\* returns a stage above the one the call before returned, in the AuthStage
\* order, and a slot that is absent is absent after every later call.
C27_StageNeverAdvances ==
    [][/\ (Called /\ Called') => StageRank(StageOf(ret')) <= StageRank(StageOf(ret))
       /\ \A s \in SlotStages : Slot(chain, s) = None => Slot(chain', s) = None]_vars

\* C27 witness: a call returned XboxSecure, time passed, and the next call
\* cleared the expired xsts slot and returned XboxLive.
C27_Witness ==
    /\ Called /\ prevRet # <<>>
    /\ StageOf(prevRet) = "XboxSecure"
    /\ StageOf(ret) = "XboxLive"
    /\ pre.xsts # None /\ chain.xsts = None
    /\ lastNow > 0

----------------------------------------------------------------------------
(* Storage service: order of the adapter calls, termination *)

\* C28: in every write_and_verify a read-back directly follows a write that
\* returned success, a failed write is followed by no read, read-backs never
\* outnumber writes, there are at most three of each, and every sleep stands
\* between a failed attempt and the next write.
C28_WriteBeforeReadBack ==
    InWriteAndVerify =>
        /\ \A i \in ReadIdx(trace) :
            /\ i > 1
            /\ trace[i - 1].ev = "write" /\ trace[i - 1].out = "ok"
            /\ trace[i - 1].t <= trace[i].t
        /\ \A i \in WriteIdx(trace) :
            (trace[i].out = "err" /\ i < Len(trace)) => trace[i + 1].ev = "sleep"
        /\ NumReads(trace) <= NumWrites(trace)
        /\ NumWrites(trace) <= max_retries
        /\ \A i \in SleepIdx(trace) :
            /\ i > 1 /\ IsFailure(trace[i - 1])
            /\ i < Len(trace) => trace[i + 1].ev = "write"
            /\ i = Len(trace) => pc \in {"sleep", "write"}

\* C28 witness: a failed write (no read-back), a missed read-back and a
\* verified third attempt: three writes, two read-backs, two sleeps.
C28_Witness ==
    /\ InWriteAndVerify /\ Returned
    /\ Len(trace) = 7
    /\ trace[1].ev = "write" /\ trace[1].out = "err"
    /\ trace[2].ev = "sleep"
    /\ trace[4].ev = "read" /\ trace[4].out = "none"
    /\ trace[7].ev = "read" /\ trace[7].out = "some"
    /\ result = Ok(None)

\* C29: when every adapter call and every sleep returns, a write_and_verify
\* that has been called returns, Ok or an error, whatever the adapter does.
C29_WriteAndVerifyTerminates ==
    (InWriteAndVerify /\ ~Returned) ~> (InWriteAndVerify /\ Returned /\ result.tag \in {"Ok", "Err"})

\* C29 witness: a call against an adapter that failed every attempt has
\* returned the error of the third.
C29_Witness ==
    /\ InWriteAndVerify /\ Returned
    /\ result.tag = "Err"
    /\ NumWrites(trace) = 3
    /\ NumSleeps(trace) = 2
    /\ \A i \in WriteIdx(trace) : trace[i].out = "err"

====
